---- MODULE Spec2Model ----
(***************************************************************************)
(* Model of the NITF file-header decoder of src/lib.rs: the fixed-field    *)
(* do_parse! chain of header(), the background-colour sub-parser           *)
(* parse_fbkgc, the count parser num_from_str and the repeating LISH/LI    *)
(* extraction of parse_lish_and_li.                                        *)
(*                                                                         *)
(* Bytes are integers 0..255; a slice &[u8] is a sequence of bytes.  A     *)
(* nom IResult is a record whose kind is "Done" or "Incomplete" (take! on  *)
(* a short input) or "Error" (digit on a non-digit).  panic! ends the      *)
(* run in pc = "panic".                                                    *)
(*                                                                         *)
(* parse_lish_and_li is read as nom reads a parser body: each take! is     *)
(* applied to what the previous one left, and an Incomplete of a take! is  *)
(* the outcome of the function (its declared type is IResult).  header()   *)
(* stops after numi; the driver below hands its remaining input and its    *)
(* numi field to parse_lish_and_li, which is where the format puts the     *)
(* LISH/LI pairs.                                                          *)
(***************************************************************************)
EXTENDS Integers, Sequences, FiniteSets, TLC

VARIABLES input, pc, run, hdr_result, num_lish, x, lish_vec, li_vec, cur,
          result, first

vars == <<input, pc, run, hdr_result, num_lish, x, lish_vec, li_vec, cur,
          result, first>>

\* ---------------------------------------------------------------- widths
FHDR_SIZE == 4
FVER_SIZE == 5
CLEVEL_SIZE == 2
STYPE_SIZE == 4
OSTAID_SIZE == 10
FDT_SIZE == 14
FTITLE_SIZE == 80
FSCLASS_SIZE == 1
FSCLSY_SIZE == 2
FSCODE_SIZE == 11
FSCTLH_SIZE == 2
FSREL_SIZE == 20
FSDCTP_SIZE == 2
FSDCDT_SIZE == 8
FSDCXM_SIZE == 4
FSDG_SIZE == 1
FSDGDT_SIZE == 8
FSCLTX_SIZE == 43
FSCATP_SIZE == 1
FSCAUT_SIZE == 40
FSCRSN_SIZE == 1
FSSRDT_SIZE == 8
FSCTLN_SIZE == 15
FSCOP_SIZE == 5
FSCPYS_SIZE == 5
ENCRYP_SIZE == 1
FBKGC_SIZE == 3
ONAME_SIZE == 24
OPHONE_SIZE == 18
FL_SIZE == 12
HL_SIZE == 6
NUMI_SIZE == 3
LISH_SIZE == 6
LI_SIZE == 10

\* Largest value of the i8 that num_from_str parses into.
I8_MAX == 127

\* The fields of header()'s do_parse! chain, in chain order.
Layout ==
  << [name |-> "fhdr",    size |-> FHDR_SIZE],
     [name |-> "fver",    size |-> FVER_SIZE],
     [name |-> "clevel",  size |-> CLEVEL_SIZE],
     [name |-> "stype",   size |-> STYPE_SIZE],
     [name |-> "ostaid",  size |-> OSTAID_SIZE],
     [name |-> "fdt",     size |-> FDT_SIZE],
     [name |-> "ftitle",  size |-> FTITLE_SIZE],
     [name |-> "fsclass", size |-> FSCLASS_SIZE],
     [name |-> "fsclsy",  size |-> FSCLSY_SIZE],
     [name |-> "fscode",  size |-> FSCODE_SIZE],
     [name |-> "fsctlh",  size |-> FSCTLH_SIZE],
     [name |-> "fsrel",   size |-> FSREL_SIZE],
     [name |-> "fsdctp",  size |-> FSDCTP_SIZE],
     [name |-> "fsdcdt",  size |-> FSDCDT_SIZE],
     [name |-> "fsdcxm",  size |-> FSDCXM_SIZE],
     [name |-> "fsdg",    size |-> FSDG_SIZE],
     [name |-> "fsdgdt",  size |-> FSDGDT_SIZE],
     [name |-> "fscltx",  size |-> FSCLTX_SIZE],
     [name |-> "fscatp",  size |-> FSCATP_SIZE],
     [name |-> "fscaut",  size |-> FSCAUT_SIZE],
     [name |-> "fscrsn",  size |-> FSCRSN_SIZE],
     [name |-> "fssrdt",  size |-> FSSRDT_SIZE],
     [name |-> "fsctln",  size |-> FSCTLN_SIZE],
     [name |-> "fscop",   size |-> FSCOP_SIZE],
     [name |-> "fscpys",  size |-> FSCPYS_SIZE],
     [name |-> "encryp",  size |-> ENCRYP_SIZE],
     [name |-> "fbkgc",   size |-> FBKGC_SIZE],
     [name |-> "oname",   size |-> ONAME_SIZE],
     [name |-> "ophone",  size |-> OPHONE_SIZE],
     [name |-> "fl",      size |-> FL_SIZE],
     [name |-> "hl",      size |-> HL_SIZE],
     [name |-> "numi",    size |-> NUMI_SIZE] >>

\* ------------------------------------------------------- nom combinators
NoFields == [n \in {} |-> <<>>]

Incomplete == [kind |-> "Incomplete", rest |-> <<>>, out |-> <<>>]

\* take! that hands on the input one byte too far.
take_skip(in, n) ==
  IF Len(in) < n
    THEN Incomplete
    ELSE [kind |-> "Done", rest |-> SubSeq(in, n + 2, Len(in)),
          out |-> SubSeq(in, 1, n)]

\* take!(n): the first n bytes and the input after them, or Incomplete
\* when fewer than n bytes are left.
take(in, n) ==
  IF Len(in) < n
    THEN Incomplete
    ELSE [kind |-> "Done", rest |-> SubSeq(in, n + 1, Len(in)),
          out |-> SubSeq(in, 1, n)]

\* parse_fbkgc with the channels in reverse order.
parse_fbkgc_bgr(in) ==
  LET r == take(in, FBKGC_SIZE)
  IN  IF r.kind # "Done"
        THEN r
        ELSE [r EXCEPT !.out = << r.out[3], r.out[2], r.out[1] >>]

\* parse_fbkgc: map!(take!(FBKGC_SIZE), |rgb| RGB(rgb[0], rgb[1], rgb[2])).
parse_fbkgc(in) ==
  LET r == take(in, FBKGC_SIZE)
  IN  IF r.kind # "Done"
        THEN r
        ELSE [r EXCEPT !.out = << r.out[1], r.out[2], r.out[3] >>]

\* A chain that answers a short input with the fields read so far.
RECURSIVE do_parse_partial(_, _, _)
do_parse_partial(i, in, acc) ==
  IF i > Len(Layout)
    THEN [kind |-> "Done", rest |-> in, out |-> acc]
    ELSE LET f == Layout[i]
             r == IF f.name = "fbkgc" THEN parse_fbkgc(in)
                                      ELSE take(in, f.size)
         IN  IF r.kind # "Done"
               THEN [kind |-> "Done", rest |-> in, out |-> acc]
               ELSE do_parse_partial(i + 1, r.rest, (f.name :> r.out) @@ acc)

\* The do_parse! chain of header() from field i on: each parser runs on the
\* input its predecessor left; the first one that is not Done ends the chain
\* with its outcome and no record.
RECURSIVE do_parse(_, _, _)
do_parse(i, in, acc) ==
  IF i > Len(Layout)
    THEN [kind |-> "Done", rest |-> in, out |-> acc]
    ELSE LET f == Layout[i]
             r == IF f.name = "fbkgc" THEN parse_fbkgc(in)
                                      ELSE take(in, f.size)
         IN  IF r.kind # "Done"
               THEN Incomplete
               ELSE do_parse(i + 1, r.rest, (f.name :> r.out) @@ acc)

header(in) == do_parse(1, in, NoFields)

\* String::from_utf8_lossy: an ASCII byte is its own character, any other
\* byte is replaced by U+FFFD (bytes of the count fields modelled here never
\* form a multi-byte sequence).
from_utf8_lossy(bytes) ==
  [k \in 1..Len(bytes) |-> IF bytes[k] < 128 THEN bytes[k] ELSE 65533]

is_dec_digit(c) == c \in 48..57

\* nom's digit: the longest non-empty prefix of decimal digits and what
\* follows it; Error when the first character is no digit, Incomplete on
\* empty input.
digit(s) ==
  IF Len(s) = 0
    THEN Incomplete
    ELSE LET stops == {k \in 1..Len(s) : ~is_dec_digit(s[k])}
             idx == IF stops = {} THEN Len(s) + 1
                    ELSE CHOOSE k \in stops : \A j \in stops : k <= j
         IN  IF idx = 1
               THEN [kind |-> "Error", rest |-> <<>>, out |-> <<>>]
               ELSE [kind |-> "Done", rest |-> SubSeq(s, idx, Len(s)),
                     out |-> SubSeq(s, 1, idx - 1)]

\* <i8 as FromStr>::from_str on a string of digits: the decimal value,
\* accumulated digit by digit, or Err once it no longer fits an i8.
RECURSIVE from_str_acc(_, _, _)
from_str_acc(s, k, v) ==
  IF k > Len(s)
    THEN [ok |-> TRUE, val |-> v]
    ELSE LET w == v * 10 + (s[k] - 48)
         IN  IF w > I8_MAX THEN [ok |-> FALSE, val |-> 0]
                           ELSE from_str_acc(s, k + 1, w)

from_str(s) ==
  IF Len(s) = 0 THEN [ok |-> FALSE, val |-> 0] ELSE from_str_acc(s, 1, 0)

\* num_from_str: map!(digit, FromStr::from_str).
num_from_str(s) ==
  LET r == digit(s)
  IN  IF r.kind # "Done" THEN r ELSE [r EXCEPT !.out = from_str(r.out)]

\* ---------------------------------------------------------------- inputs
\* Number of LISH/LI pairs the longest buffer has room for after the header.
MaxPairs == 3

\* Characters a count field is drawn from: space and the digits 0 1 2 3 7 8 9.
CountChars == {32, 48, 49, 50, 51, 55, 56, 57}

\* Values a background-colour byte is drawn from.
ColorBytes == {0, 65, 255}

Seeds == {0, 101}

\* Byte at (zero-based) offset o of a buffer with the given seed; odd stride,
\* so that neighbouring offsets never hold the same byte.
Pattern(o, seed) == (7 * o + seed) % 256

MkInput(len, numi, bkgc, seed) ==
  [i \in 1..len |->
     IF i \in 298..300 THEN bkgc[i - 297]
     ELSE IF i \in 361..363 THEN numi[i - 360]
     ELSE Pattern(i - 1, seed)]

\* Bytes following the fixed fields: whole pairs, and pairs cut inside the
\* sub-header length (5) and right after it (6).
TailLens == {16 * k + d : k \in 0..MaxPairs, d \in {0, 5, 6}}

Inputs ==
  \* every truncation of two headers in front of the end of the count field
  {MkInput(len, <<48, 48, 51>>, <<10, 20, 30>>, seed) :
      len \in 0..362, seed \in Seeds}
  \cup
  \* every background colour
  {MkInput(363 + 16, <<48, 48, 49>>, <<r, g, b>>, 0) :
      r \in ColorBytes, g \in ColorBytes, b \in ColorBytes}
  \cup
  \* every count field over CountChars, with every tail length
  {MkInput(363 + t, <<a, b, c>>, <<10, 20, 30>>, 0) :
      t \in TailLens, a \in CountChars, b \in CountChars, c \in CountChars}

\* ----------------------------------------------------------------- state
NoResult == [kind |-> "None", lish |-> <<>>, li |-> <<>>]
NoHeader == [kind |-> "None", rest |-> <<>>, out |-> NoFields]

Init ==
  /\ input \in Inputs
  /\ pc = "header"
  /\ run = 1
  /\ hdr_result = NoHeader
  /\ num_lish = 0
  /\ x = 0
  /\ lish_vec = <<>>
  /\ li_vec = <<>>
  /\ cur = <<>>
  /\ result = NoResult
  /\ first = <<NoHeader, NoResult, <<>>>>

\* header(input): the whole do_parse! chain.  On Done the caller goes on to
\* the LISH/LI directory, otherwise the decode is over.
Header ==
  /\ pc = "header"
  /\ hdr_result' = header(input)
  /\ pc' = IF hdr_result'.kind = "Done" THEN "numi" ELSE "done"
  /\ UNCHANGED <<input, run, num_lish, x, lish_vec, li_vec, cur, result,
                 first>>

\* parse_lish_and_li whose vectors outlive the call instead of being created
\* by it.
ParseNumi_stale ==
  /\ pc = "numi"
  /\ LET numi_str == from_utf8_lossy(hdr_result.out["numi"])
         r == num_from_str(numi_str)
     IN  IF r.kind = "Done" /\ r.out.ok
           THEN /\ num_lish' = r.out.val
                /\ x' = 1
                /\ cur' = hdr_result.rest
                /\ pc' = "loop"
                /\ UNCHANGED <<result, lish_vec, li_vec>>
           ELSE /\ pc' = "panic"
                /\ result' = [kind |-> "Panic", lish |-> <<>>, li |-> <<>>]
                /\ UNCHANGED <<num_lish, lish_vec, li_vec, x, cur>>
  /\ UNCHANGED <<input, run, hdr_result, first>>

\* parse_lish_and_li(input, numi) up to the loop: the count is parsed, a
\* count that does not parse panics, the two vectors are created empty.
ParseNumi ==
  /\ pc = "numi"
  /\ LET numi_str == from_utf8_lossy(hdr_result.out["numi"])
         r == num_from_str(numi_str)
     IN  IF r.kind = "Done" /\ r.out.ok
           THEN /\ num_lish' = r.out.val
                /\ lish_vec' = <<>>
                /\ li_vec' = <<>>
                /\ x' = 1
                /\ cur' = hdr_result.rest
                /\ pc' = "loop"
                /\ UNCHANGED result
           ELSE /\ pc' = "panic"
                /\ result' = [kind |-> "Panic", lish |-> <<>>, li |-> <<>>]
                /\ UNCHANGED <<num_lish, lish_vec, li_vec, x, cur>>
  /\ UNCHANGED <<input, run, hdr_result, first>>

\* An iteration that reads the data length but does not push it.
LoopIter_nopush ==
  /\ pc = "loop"
  /\ x < num_lish
  /\ LET a == take(cur, LISH_SIZE)
         b == take(a.rest, LI_SIZE)
     IN  IF a.kind # "Done" \/ b.kind # "Done"
           THEN /\ pc' = "done"
                /\ result' = [kind |-> "Incomplete", lish |-> <<>>,
                              li |-> <<>>]
                /\ UNCHANGED <<lish_vec, li_vec, cur, x>>
           ELSE /\ lish_vec' = Append(lish_vec, a.out)
                /\ cur' = b.rest
                /\ x' = x + 1
                /\ UNCHANGED <<pc, result, li_vec>>
  /\ UNCHANGED <<input, run, hdr_result, num_lish, first>>

\* One iteration of `for x in 1..num_lish`: take LISH_SIZE bytes and push
\* them on lish_vec, then take LI_SIZE bytes and push them on li_vec.  A
\* take! that is Incomplete ends the function with that outcome.
LoopIter ==
  /\ pc = "loop"
  /\ x < num_lish
  /\ LET a == take(cur, LISH_SIZE)
         b == take(a.rest, LI_SIZE)
     IN  IF a.kind # "Done"
           THEN /\ pc' = "done"
                /\ result' = [kind |-> "Incomplete", lish |-> <<>>,
                              li |-> <<>>]
                /\ UNCHANGED <<lish_vec, li_vec, cur, x>>
           ELSE IF b.kind # "Done"
             THEN /\ pc' = "done"
                  /\ result' = [kind |-> "Incomplete", lish |-> <<>>,
                                li |-> <<>>]
                  /\ lish_vec' = Append(lish_vec, a.out)
                  /\ cur' = a.rest
                  /\ UNCHANGED <<li_vec, x>>
             ELSE /\ lish_vec' = Append(lish_vec, a.out)
                  /\ li_vec' = Append(li_vec, b.out)
                  /\ cur' = b.rest
                  /\ x' = x + 1
                  /\ UNCHANGED <<pc, result>>
  /\ UNCHANGED <<input, run, hdr_result, num_lish, first>>

\* The range is exhausted: the function returns (lish_vec, li_vec).
Return ==
  /\ pc = "loop"
  /\ x >= num_lish
  /\ result' = [kind |-> "Done", lish |-> lish_vec, li |-> li_vec]
  /\ pc' = "done"
  /\ UNCHANGED <<input, run, hdr_result, num_lish, x, lish_vec, li_vec, cur,
                 first>>

\* The caller decodes the same buffer a second time, keeping the first
\* outcome and the buffer as it was for comparison.  Locals of the finished calls are dead; nothing
\* of them is reset here, each function initialises its own.
DecodeAgain ==
  /\ pc = "done"
  /\ run = 1
  /\ first' = <<hdr_result, result, input>>
  /\ run' = 2
  /\ pc' = "header"
  /\ hdr_result' = NoHeader
  /\ result' = NoResult
  /\ UNCHANGED <<input, num_lish, x, lish_vec, li_vec, cur>>

Next == Header \/ ParseNumi \/ LoopIter \/ Return \/ DecodeAgain

Spec == Init /\ [][Next]_vars

\* ---------------------------------------------------------------- claims
HeaderDone == hdr_result.kind = "Done"

\* The three bytes of the count field of the buffer.
NumiField == SubSeq(input, 361, 363)

AllDigits(f) == \A k \in 1..Len(f) : f[k] \in 48..57

DecimalValue(f) == 100 * (f[1] - 48) + 10 * (f[2] - 48) + (f[3] - 48)

\* Bytes of the buffer behind the count field.
TailLen == Len(input) - 363

\* Sum of the widths of the fields in front of field i of the layout.
RECURSIVE OffsetOf(_)
OffsetOf(i) == IF i = 1 THEN 0 ELSE OffsetOf(i - 1) + Layout[i - 1].size

IndexOf(name) == CHOOSE i \in 1..Len(Layout) : Layout[i].name = name

\* C1: a count field of value N whose N pairs are all in the buffer makes
\* parse_lish_and_li run N iterations and return N sub-header lengths and
\* N data lengths ("003" gives 3).
C1_ExactlyCountEntries ==
  (HeaderDone /\ pc = "done" /\ AllDigits(NumiField)
     /\ TailLen >= 16 * DecimalValue(NumiField))
  => /\ result.kind = "Done"
     /\ Len(result.lish) = DecimalValue(NumiField)
     /\ Len(result.li) = DecimalValue(NumiField)
     /\ x - 1 = DecimalValue(NumiField)

\* C2: a buffer shorter than the 363 bytes of fixed fields makes header()
\* end Incomplete (the end of the buffer was reached) with no record at all.
C2_TruncatedHeaderFails ==
  (Len(input) < 363 /\ pc # "header")
  => /\ hdr_result.kind = "Incomplete"
     /\ DOMAIN hdr_result.out = {}
     /\ pc = "done"
     /\ result.kind = "None"

C2_Witness ==
  /\ Len(input) = 362
  /\ pc = "done"
  /\ hdr_result.kind = "Incomplete"

\* C3: a count field with a byte that is no decimal digit makes
\* parse_lish_and_li return a MalformedCountField error value; it does not
\* panic and does not go on with a count.
C3_MalformedCountIsError ==
  (HeaderDone /\ pc \in {"done", "panic"} /\ ~AllDigits(NumiField))
  => /\ pc # "panic"
     /\ result.kind = "MalformedCountField"

\* C4: every field of a decoded header is the bytes of the buffer from the
\* sum of the widths in front of it, fhdr at 0, fbkgc at 297, numi at 360,
\* and the input left over starts at 363.
C4_FieldsAtPrefixSums ==
  HeaderDone
  => /\ \A i \in 1..Len(Layout) :
          hdr_result.out[Layout[i].name] =
            SubSeq(input, OffsetOf(i) + 1, OffsetOf(i) + Layout[i].size)
     /\ DOMAIN hdr_result.out = {Layout[i].name : i \in 1..Len(Layout)}
     /\ OffsetOf(IndexOf("fhdr")) = 0
     /\ OffsetOf(IndexOf("fbkgc")) = 297
     /\ OffsetOf(IndexOf("numi")) = 360
     /\ OffsetOf(Len(Layout)) + Layout[Len(Layout)].size = 363
     /\ hdr_result.rest = SubSeq(input, 364, Len(input))

C4_Witness ==
  /\ HeaderDone
  /\ pc = "numi"
  /\ Len(input) > 363

\* C5: an all-digit count field "000".."999" is decoded to its decimal
\* value without a failure.
C5_CountIsDecimalValue ==
  (HeaderDone /\ pc \in {"loop", "done", "panic"} /\ AllDigits(NumiField))
  => /\ pc # "panic"
     /\ num_lish = DecimalValue(NumiField)
     /\ num_lish >= 0

\* C6: the decoded background colour is the three bytes at offset 297 in
\* their order, and the next field starts three bytes further.
C6_BackgroundColorBytes ==
  HeaderDone
  => /\ hdr_result.out["fbkgc"] = << input[298], input[299], input[300] >>
     /\ hdr_result.out["oname"] = SubSeq(input, 301, 300 + ONAME_SIZE)

C6_Witness ==
  /\ HeaderDone
  /\ hdr_result.out["fbkgc"] = << 0, 65, 255 >>

C8_EntriesInFileOrder ==
  (HeaderDone /\ pc = "done" /\ result.kind = "Done")
  => /\ Len(result.lish) = num_lish
     /\ Len(result.li) = num_lish
     /\ \A i \in 0..(num_lish - 1) :
          /\ result.lish[i + 1] =
               SubSeq(input, 363 + 16 * i + 1, 363 + 16 * i + 6)
          /\ result.li[i + 1] =
               SubSeq(input, 363 + 16 * i + 7, 363 + 16 * i + 16)
     /\ Len(input) - Len(cur) = 363 + 16 * num_lish

\* C9: a buffer that ends before the N pairs of a valid count N makes
\* parse_lish_and_li fail Incomplete and return no directory.
C9_ShortDirectoryFails ==
  (HeaderDone /\ pc = "done" /\ AllDigits(NumiField)
     /\ TailLen < 16 * DecimalValue(NumiField))
  => /\ result.kind = "Incomplete"
     /\ result.lish = <<>>
     /\ result.li = <<>>

====
